---- MODULE Spec2Model ----
(***************************************************************************)
(* Model of iflow_request.py: the market-position analysis of the Steam    *)
(* index monitor (get_market_position, check_market, check_seasonal).      *)
(*                                                                         *)
(* Representation.                                                         *)
(*  - A date string is the sequence of its characters: a digit is its      *)
(*    value 0..9 and '-' is -1 (it sorts below the digits, as in ASCII),   *)
(*    so "2024-03-10" is <<2,0,2,4,-1,0,3,-1,1,0>>.  Strings are compared  *)
(*    character by character, as Python compares str.                      *)
(*  - A datetime (always midnight here) is the tuple <<year, month, day>>. *)
(*    timedelta arithmetic goes through proleptic Gregorian ordinals.      *)
(*  - An index value is the float the JSON decoder yields for its decimal   *)
(*    numeral; an integer value is held as the float equal to it (Python   *)
(*    computes the same results for ints of this size).                    *)
(*  - A float is an IEEE 754 binary64 value <<sign, m, e>> standing for    *)
(*    sign * m * 2^e, the 53-bit significand m held as a sequence of       *)
(*    15-bit limbs, least significant first; 0.0 is <<0, <<>>, 0>>.        *)
(*    Division, addition, multiplication and '.1f' formatting round as     *)
(*    the hardware and CPython do (to nearest, ties to even).              *)
(*  - A message is a sequence of lines; a line is a record                 *)
(*    [kind, name, mode, a, b].  None and the empty string are both <<>>.  *)
(***************************************************************************)
EXTENDS Integers, Sequences, FiniteSets

VARIABLES
    pc,             \* position in check_market / check_seasonal / the direct call
    is_manual,      \* check_market's argument
    raw_data,       \* resp.json(): the payload, a sequence of records
    n10_data,       \* the '10%' records sorted by date string (all_data in check_seasonal)
    curr_val,       \* latest['value'] (current_val in get_market_position)
    curr_date,      \* strptime(latest['date']), a <<y, m, d>> tuple
    widx,           \* number of entries of `periods` the loop has gone through
    hist_vals,      \* hist_vals of the window handled last (history_values)
    real_rank,      \* rank returned by the last get_market_position call
    real_quantile,  \* quantile returned by the last get_market_position call, a float
    stdout,         \* the status lines printed by the window loop, in order
    report_msgs,    \* check_market's report_msgs
    yidx,           \* number of entries of [1, 2, 3] check_seasonal has gone through
    drops,          \* check_seasonal's drops, a sequence of floats
    caught,         \* year_back values whose iteration ended in `except: pass`
    seasonal_msg,   \* check_seasonal's return value
    notifications   \* the calls of notification.notify, in order

vars == <<pc, is_manual, raw_data, n10_data, curr_val, curr_date, widx, hist_vals,
          real_rank, real_quantile, stdout, report_msgs, yidx, drops, caught,
          seasonal_msg, notifications>>

(***************************************************************************)
(* Bounds of the explored inputs.                                          *)
(***************************************************************************)
MaxHist == 3        \* longest history of a direct get_market_position call
MaxVal == 3         \* values of a direct call range over 0.0, 0.1, .. MaxVal tenths
MaxLen == 2         \* longest free-form payload
MaxRun == 20        \* longest run of consecutive daily records before the latest
MaxBoundary == 3    \* most records placed on window boundaries in one payload
MaxSeasonDrop == 5  \* largest fall from a seasonal start value to its end value
MaxSeasonRise == 3  \* largest rise from a seasonal start value to its end value

(***************************************************************************)
(* Natural numbers of any size: little-endian sequences of limbs below     *)
(* Base, without leading zero limbs; <<>> is 0.  They carry the 53-bit     *)
(* significands of the floats.                                             *)
(***************************************************************************)
Base == 2 ^ 15

RECURSIVE BigOf(_)
BigOf(n) == IF n = 0 THEN <<>> ELSE <<n % Base>> \o BigOf(n \div Base)

RECURSIVE BigTrim(_)
BigTrim(a) ==
    IF a = <<>> THEN <<>>
    ELSE IF a[Len(a)] = 0 THEN BigTrim(SubSeq(a, 1, Len(a) - 1))
    ELSE a

RECURSIVE BigToInt(_)
BigToInt(a) == IF a = <<>> THEN 0 ELSE a[1] + Base * BigToInt(Tail(a))

BigIsOdd(a) == a # <<>> /\ a[1] % 2 = 1

\* a * k + c for small k and c.
RECURSIVE BigMulAdd(_, _, _)
BigMulAdd(a, k, c) ==
    IF a = <<>> THEN BigOf(c)
    ELSE LET t == a[1] * k + c
         IN  <<t % Base>> \o BigMulAdd(Tail(a), k, t \div Base)
BigMulSmall(a, k) == BigTrim(BigMulAdd(a, k, 0))

RECURSIVE BigAddCarry(_, _, _)
BigAddCarry(a, b, c) ==
    IF a = <<>> /\ b = <<>> THEN BigOf(c)
    ELSE LET x == IF a = <<>> THEN 0 ELSE a[1]
             y == IF b = <<>> THEN 0 ELSE b[1]
             t == x + y + c
         IN  <<t % Base>>
               \o BigAddCarry(IF a = <<>> THEN <<>> ELSE Tail(a),
                              IF b = <<>> THEN <<>> ELSE Tail(b), t \div Base)
BigAdd(a, b) == BigAddCarry(a, b, 0)

\* a - b for a >= b.
RECURSIVE BigSubBorrow(_, _, _)
BigSubBorrow(a, b, c) ==
    IF a = <<>> THEN <<>>
    ELSE LET y == IF b = <<>> THEN 0 ELSE b[1]
             t == a[1] - y - c
         IN  <<IF t < 0 THEN t + Base ELSE t>>
               \o BigSubBorrow(Tail(a), IF b = <<>> THEN <<>> ELSE Tail(b),
                               IF t < 0 THEN 1 ELSE 0)
BigSub(a, b) == BigTrim(BigSubBorrow(a, b, 0))

\* -1, 0, 1 as a < b, a = b, a > b.
RECURSIVE BigCmpFrom(_, _, _)
BigCmpFrom(a, b, i) ==
    IF i = 0 THEN 0
    ELSE IF a[i] < b[i] THEN 0 - 1
    ELSE IF a[i] > b[i] THEN 1
    ELSE BigCmpFrom(a, b, i - 1)
BigCmp(a, b) ==
    IF Len(a) < Len(b) THEN 0 - 1
    ELSE IF Len(a) > Len(b) THEN 1
    ELSE BigCmpFrom(a, b, Len(a))

\* <<a \div q, a % q>> for a small q > 0.
RECURSIVE BigDivMod(_, _)
BigDivMod(a, q) ==
    IF a = <<>> THEN <<<<>>, 0>>
    ELSE LET hi == BigDivMod(Tail(a), q)
             cur == hi[2] * Base + a[1]
         IN  << <<cur \div q>> \o hi[1], cur % q >>
BigDivSmall(a, q) == LET r == BigDivMod(a, q) IN <<BigTrim(r[1]), r[2]>>

\* a * 2^k
BigShl(a, k) ==
    IF a = <<>> THEN <<>>
    ELSE [i \in 1..(k \div 15) |-> 0] \o BigMulSmall(a, 2 ^ (k % 15))

\* <<a \div 2^k, c>> with c = 0, 1, 2, 3 as the remainder is zero, below
\* half, exactly half, above half of 2^k.
BigShrClass(rest, k) == IF rest = <<>> THEN 0 ELSE BigCmp(rest, BigShl(<<1>>, k - 1)) + 2
BigShrRest(a, k, quot) == <<quot, BigShrClass(BigSub(a, BigShl(quot, k)), k)>>
BigShr(a, k) ==
    IF k = 0 THEN <<a, 0>>
    ELSE LET drop == k \div 15
             high == IF drop >= Len(a) THEN <<>> ELSE SubSeq(a, drop + 1, Len(a))
         IN  BigShrRest(a, k, BigDivSmall(high, 2 ^ (k % 15))[1])

RECURSIVE BitLenSmall(_)
BitLenSmall(x) == IF x = 0 THEN 0 ELSE 1 + BitLenSmall(x \div 2)
BigBitLen(a) == IF a = <<>> THEN 0 ELSE 15 * (Len(a) - 1) + BitLenSmall(a[Len(a)])

(***************************************************************************)
(* IEEE 754 binary64, round to nearest, ties to even; exponent range and   *)
(* subnormals left out.  A float is <<sign, m, e>> and stands for          *)
(* sign * m * 2^e with 2^52 <= m < 2^53; zero is <<0, <<>>, 0>>.           *)
(***************************************************************************)
FloatZero == <<0, <<>>, 0>>

\* The float nearest to sign * (n + d) * 2^e, where 0 <= d < 1 and
\* sticky says d > 0 (then n has more than 54 bits).
\* sign * m * 2^e for m <= 2^53.
RoundCarry(sign, m, e) ==
    IF BigBitLen(m) > 53 THEN <<sign, BigShr(m, 1)[1], e + 1>> ELSE <<sign, m, e>>
\* cut = <<n \div 2^r, class of the remainder>>, as BigShr(n, r) gives it.
RoundCut(sign, cut, e, sticky) ==
    RoundCarry(sign,
               IF cut[2] = 3 \/ (cut[2] = 2 /\ (sticky \/ BigIsOdd(cut[1])))
                 THEN BigAdd(cut[1], <<1>>) ELSE cut[1],
               e)
RoundBits(sign, n, e, sticky, len) ==
    IF len <= 53 THEN <<sign, BigShl(n, 53 - len), e - (53 - len)>>
    ELSE RoundCut(sign, BigShr(n, len - 53), e + (len - 53), sticky)
RoundFloat(sign, n, e, sticky) ==
    IF n = <<>> \/ sign = 0 THEN FloatZero
    ELSE RoundBits(sign, n, e, sticky, BigBitLen(n))

Sign(x) == IF x > 0 THEN 1 ELSE IF x < 0 THEN 0 - 1 ELSE 0
Abs(x) == IF x < 0 THEN 0 - x ELSE x

\* sign * n * 2^e / q rounded, for a small q > 0.
FloatQuotient(sign, n, e, q) ==
    IF n = <<>> THEN FloatZero
    ELSE LET k == 56 + BitLenSmall(q)
             d == BigDivSmall(BigShl(n, k), q)
         IN  RoundFloat(sign, d[1], e - k, d[2] # 0)

\* p / q for ints (true division), q # 0.
FloatDivInts(p, q) == FloatQuotient(Sign(p) * Sign(q), BigOf(Abs(p)), 0, Abs(q))

\* x / n for an int n > 0.
FloatDivInt(x, n) == FloatQuotient(x[1], x[2], x[3], n)

\* x * k for a small int k > 0.
FloatMulInt(x, k) == RoundFloat(x[1], BigMulSmall(x[2], k), x[3], FALSE)

\* x + y
FloatAdd(x, y) ==
    IF x[1] = 0 THEN y
    ELSE IF y[1] = 0 THEN x
    ELSE LET e == IF x[3] < y[3] THEN x[3] ELSE y[3]
             a == BigShl(x[2], x[3] - e)
             b == BigShl(y[2], y[3] - e)
             c == BigCmp(a, b)
         IN  IF x[1] = y[1] THEN RoundFloat(x[1], BigAdd(a, b), e, FALSE)
             ELSE IF c = 0 THEN FloatZero
             ELSE IF c > 0 THEN RoundFloat(x[1], BigSub(a, b), e, FALSE)
             ELSE RoundFloat(y[1], BigSub(b, a), e, FALSE)

\* x < y
FloatLt(x, y) ==
    LET mag == IF x[3] # y[3] THEN (IF x[3] < y[3] THEN 0 - 1 ELSE 1)
               ELSE BigCmp(x[2], y[2])
    IN  IF x[1] # y[1] THEN x[1] < y[1]
        ELSE IF x[1] = 0 THEN FALSE
        ELSE IF x[1] > 0 THEN mag < 0
        ELSE mag > 0
FloatLeq(x, y) == ~FloatLt(y, x)

\* x - y
FloatSub(x, y) == FloatAdd(x, <<0 - y[1], y[2], y[3]>>)

\* <<a \div d, a % d>> for a < 2 * d.
BigStep(a, d) == IF BigCmp(a, d) >= 0 THEN <<1, BigSub(a, d)>> ELSE <<0, a>>

\* Long division, four bits at a time, for rem < d:
\* <<quot * 16^steps + (rem * 16^steps \div d), whether the remainder is not 0>>.
RECURSIVE DivideDigits(_, _, _, _)
DivideDigits(quot, rem, d, steps) ==
    IF steps = 0 THEN <<quot, rem # <<>>>>
    ELSE LET b3 == BigStep(BigMulSmall(rem, 2), d)
             b2 == BigStep(BigMulSmall(b3[2], 2), d)
             b1 == BigStep(BigMulSmall(b2[2], 2), d)
             b0 == BigStep(BigMulSmall(b1[2], 2), d)
         IN  DivideDigits(BigMulAdd(quot, 16, 8 * b3[1] + 4 * b2[1] + 2 * b1[1] + b0[1]),
                          b0[2], d, steps - 1)

\* x / y for floats, y # 0 (the code's y = 0 raises ZeroDivisionError).
FloatDiv(x, y) ==
    IF x[1] = 0 THEN FloatZero
    ELSE LET first == BigCmp(x[2], y[2]) >= 0
             q == DivideDigits(IF first THEN <<1>> ELSE <<>>,
                               IF first THEN BigSub(x[2], y[2]) ELSE x[2], y[2], 14)
         IN  RoundFloat(x[1] * y[1], BigTrim(q[1]), x[3] - y[3] - 56, q[2])

\* '{x:.Nf}' read as a number of units of 10^-places: x * 10^places rounded
\* half to even.
FloatFixed(x, places) ==
    IF x[1] = 0 THEN 0
    ELSE LET n == BigMulSmall(x[2], 10 ^ places)
         IN  IF x[3] >= 0 THEN x[1] * BigToInt(BigShl(n, x[3]))
             ELSE LET cut == BigShr(n, 0 - x[3])
                      up == cut[2] = 3 \/ (cut[2] = 2 /\ BigIsOdd(cut[1]))
                  IN  x[1] * (BigToInt(cut[1]) + (IF up THEN 1 ELSE 0))

\* '{x*100:.1f}' for a float x >= 0: the percentage in tenths.
Percent1f(x) == FloatFixed(FloatMulInt(x, 100), 1)

(***************************************************************************)
(* Calendar: datetime.strptime, strftime, replace, + timedelta.            *)
(***************************************************************************)
IsLeap(y) == y % 4 = 0 /\ (y % 100 # 0 \/ y % 400 = 0)

DaysInMonth(y, m) ==
    IF m = 2 THEN (IF IsLeap(y) THEN 29 ELSE 28)
    ELSE IF m \in {4, 6, 9, 11} THEN 30 ELSE 31

DaysBeforeMonth(y, m) ==
    <<0, 31, 59, 90, 120, 151, 181, 212, 243, 273, 304, 334>>[m]
        + (IF m > 2 /\ IsLeap(y) THEN 1 ELSE 0)

DaysBeforeYear(y) ==
    LET p == y - 1 IN p * 365 + (p \div 4) - (p \div 100) + (p \div 400)

\* date.toordinal(): 0001-01-01 is day 1.
ToOrdinal(dt) == DaysBeforeYear(dt[1]) + DaysBeforeMonth(dt[1], dt[2]) + dt[3]

\* date.fromordinal(): the inverse, by the 400/100/4/1-year cycle decomposition.
FromOrdinal(ord) ==
    LET n0   == ord - 1
        n400 == n0 \div 146097
        r400 == n0 % 146097
        n100 == r400 \div 36524
        r100 == r400 % 36524
        n4   == r100 \div 1461
        r4   == r100 % 1461
        n1   == r4 \div 365
        r1   == r4 % 365
        year == n400 * 400 + 1 + n100 * 100 + n4 * 4 + n1
    IN  IF n1 = 4 \/ n100 = 4 THEN <<year - 1, 12, 31>>
        ELSE
          LET m0 == (r1 + 50) \div 32
              month == IF DaysBeforeMonth(year, m0) > r1 THEN m0 - 1 ELSE m0
          IN  <<year, month, r1 - DaysBeforeMonth(year, month) + 1>>

\* Whether datetime(y, m, d) can be constructed (else ValueError).
ValidDate(y, m, d) ==
    /\ y >= 1 /\ y <= 9999
    /\ m >= 1 /\ m <= 12
    /\ d >= 1 /\ d <= DaysInMonth(y, m)

\* datetime + timedelta(days = n): OverflowError outside 0001-01-01..9999-12-31.
AddDays_ok(dt, n) ==
    ToOrdinal(dt) + n >= 1 /\ ToOrdinal(dt) + n <= ToOrdinal(<<9999, 12, 31>>)
AddDays(dt, n) == FromOrdinal(ToOrdinal(dt) + n)

Dash == 0 - 1

\* The number written by the digits s[a..b].
RECURSIVE DigitsValue(_, _, _)
DigitsValue(s, a, b) == IF a > b THEN 0 ELSE DigitsValue(s, a, b - 1) * 10 + s[b]

\* The fields datetime.strptime(s, "%Y-%m-%d") reads: four digits, '-', one or
\* two digits, '-', one or two digits, and nothing else.
WellFormed(s) ==
    LET dashes == {i \in DOMAIN s : s[i] = Dash}
    IN  /\ Cardinality(dashes) = 2
        /\ 5 \in dashes
        /\ \E j \in {7, 8} : j \in dashes /\ Len(s) - j \in {1, 2}
ParseFields(s) ==
    LET j == CHOOSE i \in {7, 8} : s[i] = Dash
    IN  <<DigitsValue(s, 1, 4), DigitsValue(s, 6, j - 1), DigitsValue(s, j + 1, Len(s))>>

\* strptime raises ValueError unless the string has the format and the
\* fields form a date.
strptime_ok(s) ==
    WellFormed(s) /\ LET f == ParseFields(s) IN ValidDate(f[1], f[2], f[3])
strptime(s) == ParseFields(s)

\* The decimal digits of n >= 0, without leading zeros.
RECURSIVE Digits(_)
Digits(n) == IF n < 10 THEN <<n>> ELSE Digits(n \div 10) \o <<n % 10>>

\* dt.strftime("%Y-%m-%d") as the C library of a Linux build formats it: the
\* year is not padded to four digits, month and day are padded to two.
strftime(dt) ==
    Digits(dt[1]) \o <<Dash, dt[2] \div 10, dt[2] % 10, Dash, dt[3] \div 10, dt[3] % 10>>

\* curr_date.replace(year = y): raises ValueError when the date does not exist.
replace_ok(dt, y) == ValidDate(y, dt[2], dt[3])
replace_year(dt, y) == <<y, dt[2], dt[3]>>

\* str < str: the first differing character decides, a proper prefix is smaller.
StrLt(s, t) ==
    LET n == IF Len(s) < Len(t) THEN Len(s) ELSE Len(t)
        diff == {i \in 1..n : s[i] # t[i]}
    IN  IF diff = {} THEN Len(s) < Len(t)
        ELSE LET i == CHOOSE i \in diff : \A j \in diff : i <= j IN s[i] < t[i]

(***************************************************************************)
(* list.sort() and sorted(key=...): stable, ascending.                     *)
(***************************************************************************)
\* The sequence s reordered so that element j lands on position place[j]
\* (place is concatenated with <<>> to have it evaluated once, as a tuple).
Placed(s, place) ==
    LET at == place \o <<>>
    IN  [p \in DOMAIN s |-> s[CHOOSE j \in DOMAIN s : at[j] = p]]

SortVals(s) ==
    Placed(s, [j \in DOMAIN s |->
                 1 + Cardinality({k \in DOMAIN s :
                                     FloatLt(s[k], s[j]) \/ (s[k] = s[j] /\ k < j)})])

SortByDate(s) ==
    Placed(s, [j \in DOMAIN s |->
                 1 + Cardinality({k \in DOMAIN s :
                                     \/ StrLt(s[k].date, s[j].date)
                                     \/ (s[k].date = s[j].date /\ k < j)})])

\* list.index(x): position of the first occurrence, 0-based.
ListIndex(s, x) ==
    (CHOOSE i \in DOMAIN s : s[i] = x /\ \A j \in DOMAIN s : s[j] = x => i <= j) - 1

\* [f(x) for x in s if keep(x)] by positions: the kept positions in order.
Kept(s, keep) ==
    LET nth == [i \in DOMAIN s |-> Cardinality({j \in keep : j <= i})] \o <<>>
    IN  [p \in 1..Cardinality(keep) |-> s[CHOOSE i \in keep : nth[i] = p]]

(***************************************************************************)
(* get_market_position(current_val, history_values)                        *)
(***************************************************************************)
\* Mutation: index of the last occurrence instead of the first.
RankIndexLast(all_values, current_val) ==
    (CHOOSE i \in DOMAIN all_values :
        /\ all_values[i] = current_val
        /\ \A j \in DOMAIN all_values : all_values[j] = current_val => j <= i) - 1

RankIndex(all_values, current_val) == ListIndex(all_values, current_val)

\* Mutation: values equal to the current one counted as cheaper.
CheaperOrEqualCount(history_values, current_val) ==
    Cardinality({i \in DOMAIN history_values : FloatLeq(history_values[i], current_val)})

\* sum(1 for v in history_values if v < current_val)
CheaperCount(history_values, current_val) ==
    Cardinality({i \in DOMAIN history_values : FloatLt(history_values[i], current_val)})

\* Returns <<rank, quantile>>.
get_market_position(current_val, history_values) ==
    IF history_values = <<>> THEN <<1, FloatZero>>
    ELSE
      LET all_values == SortVals(history_values \o <<current_val>>)
          rank_index == RankIndex(all_values, current_val)
          rank == rank_index + 1
          cheaper_count == CheaperCount(history_values, current_val)
          quantile == FloatDivInts(cheaper_count, Len(history_values))
      IN  <<rank, quantile>>

(***************************************************************************)
(* Configuration: BUY_CONDITIONS, SEASONAL_DROP_THRESHOLD, periods.        *)
(***************************************************************************)
\* The float a decimal literal denotes: the one nearest to digits / 10^places.
FloatLiteral(digits, places) == FloatDivInts(digits, 10 ^ places)

week_rank_target == 1
month_quantile_target == FloatLiteral(10, 2)
quarter_quantile_target == FloatLiteral(15, 2)
year_quantile_target == FloatLiteral(20, 2)

BUY_CONDITIONS ==
    [ week_rank_target |-> week_rank_target,
      month_quantile_target |-> month_quantile_target,
      quarter_quantile_target |-> quarter_quantile_target,
      year_quantile_target |-> year_quantile_target ]

SEASONAL_DROP_THRESHOLD == FloatLiteral(2, 2)

\* The dict `periods`, in insertion order.
periods ==
    << [name |-> "week",    days |-> 7,   key |-> "week_rank_target",        mode |-> "rank"],
       [name |-> "month",   days |-> 30,  key |-> "month_quantile_target",   mode |-> "quantile"],
       [name |-> "quarter", days |-> 90,  key |-> "quarter_quantile_target", mode |-> "quantile"],
       [name |-> "year",    days |-> 365, key |-> "year_quantile_target",    mode |-> "quantile"] >>

\* [1, 2, 3] in check_seasonal
year_backs == <<1, 2, 3>>

(***************************************************************************)
(* Text lines.                                                             *)
(***************************************************************************)
Line(k, n, m, x, y) == [kind |-> k, name |-> n, mode |-> m, a |-> x, b |-> y]

\* status_text of a window: the rank, or the quantile as '{:.1f}' percent.
StatusText(conf, rank, quantile) ==
    IF conf.mode = "rank" THEN Line("status", conf.name, "rank", rank, 0)
    ELSE Line("status", conf.name, "quantile", Percent1f(quantile), 0)

\* The report_msgs entry that wraps a status text.
AlertLine(status) == Line("alert", status.name, status.mode, status.a, status.b)

\* First line of the price alert: the current index value as '{:.4f}', in
\* ten-thousandths.
HeaderLine(val) == Line("header", "", "", FloatFixed(val, 4), 0)

\* What "\n\n" puts between the alert lines and the seasonal warning.
BlankLine == Line("blank", "", "", 0, 0)

\* The seasonal warning: sample count and mean drop as '{:.1f}' percent.
SeasonalLine(n, avg) == Line("seasonal", "", "", n, Percent1f(avg))

(***************************************************************************)
(* check_market: cleaning and the window loop.                             *)
(***************************************************************************)
\* [item for item in raw_data if item.get('type') == '10%']
FilterType(data) == Kept(data, {i \in DOMAIN data : data[i].type = "10%"})

\* Whether strptime succeeds on every record's date.
AllDatesParse(data) == \A i \in DOMAIN data : strptime_ok(data[i].date)

\* Mutation: the window closed on the right (the current day counted as history).
InWindowClosed(start_dt, d, cur) ==
    ToOrdinal(start_dt) <= ToOrdinal(d) /\ ToOrdinal(d) <= ToOrdinal(cur)

\* start_dt <= d < curr_date
InWindow(start_dt, d, cur) ==
    ToOrdinal(start_dt) <= ToOrdinal(d) /\ ToOrdinal(d) < ToOrdinal(cur)

\* [x['value'] for x in n10_data if start_dt <= strptime(x['date']) < curr_date]
HistVals(data, start_dt, cur) ==
    LET taken == Kept(data, {i \in DOMAIN data :
                               InWindow(start_dt, strptime(data[i].date), cur)})
    IN  [i \in DOMAIN taken |-> taken[i].value]

\* Mutation: equality with the threshold not counted as a hit.
IsHitStrict(mode, rank, quantile, target) ==
    IF mode = "rank" THEN rank < target ELSE FloatLt(quantile, target)

\* is_hit of one window.
IsHit(mode, rank, quantile, target) ==
    IF mode = "rank" THEN rank <= target ELSE FloatLeq(quantile, target)

(***************************************************************************)
(* check_seasonal                                                          *)
(***************************************************************************)
\* date_val_map = {x['date']: x['value'] for x in all_data}: the last record
\* of a date wins.
HasKey(all_data, s) == \E i \in DOMAIN all_data : all_data[i].date = s
Lookup(all_data, s) ==
    LET last == CHOOSE i \in DOMAIN all_data :
                    /\ all_data[i].date = s
                    /\ \A j \in DOMAIN all_data : all_data[j].date = s => j <= i
    IN  all_data[last].value

\* Mutation: Feb 29 moved to Feb 28 when the target year has no Feb 29.
AnchorClamped(cur, year_back) ==
    LET y == cur[1] - year_back
    IN  IF ValidDate(y, cur[2], cur[3]) THEN <<TRUE, <<y, cur[2], cur[3]>>>>
        ELSE <<y >= 1, <<y, cur[2], DaysInMonth(y, cur[2])>>>>

\* curr_date.replace(year = curr_date.year - year_back): <<constructed, past_start>>.
Anchor(cur, year_back) ==
    LET y == cur[1] - year_back
    IN  <<replace_ok(cur, y), replace_year(cur, y)>>

\* Mutation: a zero start value recorded as a zero drop instead of raising.
SampleZeroSafe(all_data, s_str, e_str) ==
    IF ~(HasKey(all_data, s_str) /\ HasKey(all_data, e_str)) THEN <<"absent", FloatZero>>
    ELSE IF Lookup(all_data, s_str) = FloatZero THEN <<"sample", FloatZero>>
    ELSE <<"sample", FloatDiv(FloatSub(Lookup(all_data, s_str), Lookup(all_data, e_str)),
                              Lookup(all_data, s_str))>>

\* Lines 270-272 for one pair of keys: <<outcome, change>>, the outcome being
\* "absent" (the `if` is false), "raise" (ZeroDivisionError) or "sample";
\* the subtraction is rounded, then the division.
Sample(all_data, s_str, e_str) ==
    IF ~(HasKey(all_data, s_str) /\ HasKey(all_data, e_str)) THEN <<"absent", FloatZero>>
    ELSE IF Lookup(all_data, s_str) = FloatZero THEN <<"raise", FloatZero>>
    ELSE <<"sample", FloatDiv(FloatSub(Lookup(all_data, s_str), Lookup(all_data, e_str)),
                              Lookup(all_data, s_str))>>

\* sum(drops): the floats added one by one from the left, each addition rounded.
RECURSIVE SumFloats(_)
SumFloats(ds) ==
    IF ds = <<>> THEN FloatZero
    ELSE FloatAdd(SumFloats(SubSeq(ds, 1, Len(ds) - 1)), ds[Len(ds)])

\* Mutation: the threshold comparison made non-strict.
SeasonalResultAtLeast(ds) ==
    IF ds = <<>> THEN <<>>
    ELSE LET avg_drop == FloatDivInt(SumFloats(ds), Len(ds))
         IN  IF FloatLeq(SEASONAL_DROP_THRESHOLD, avg_drop)
               THEN <<SeasonalLine(Len(ds), avg_drop)>> ELSE <<>>

\* Lines 274-278: the return value for the collected drops.
SeasonalResult(ds) ==
    IF ds = <<>> THEN <<>>
    ELSE LET avg_drop == FloatDivInt(SumFloats(ds), Len(ds))
         IN  IF FloatLt(SEASONAL_DROP_THRESHOLD, avg_drop)
               THEN <<SeasonalLine(Len(ds), avg_drop)>> ELSE <<>>

(***************************************************************************)
(* check_market: sending.                                                  *)
(***************************************************************************)
Call(t, msg, secs) == [title |-> t, message |-> msg, timeout |-> secs]

\* Mutation: `elif seasonal_msg` turned into a second `if`.
NotifyCallsTwoIfs(msgs, seasonal, val) ==
    (IF msgs # <<>>
       THEN <<Call("price", <<HeaderLine(val)>> \o msgs
                    \o (IF seasonal # <<>> THEN <<BlankLine>> \o seasonal ELSE <<>>), 20)>>
       ELSE <<>>)
    \o (IF seasonal # <<>> THEN <<Call("seasonal", seasonal, 15)>> ELSE <<>>)

\* Mutation: the seasonal warning appended without the blank line.
NotifyCallsNoBlank(msgs, seasonal, val) ==
    IF msgs # <<>>
      THEN <<Call("price", <<HeaderLine(val)>> \o msgs \o seasonal, 20)>>
    ELSE IF seasonal # <<>> THEN <<Call("seasonal", seasonal, 15)>>
    ELSE <<>>

\* Lines 249-256: the notification.notify calls of one cycle.
NotifyCalls(msgs, seasonal, val) ==
    IF msgs # <<>>
      THEN <<Call("price", <<HeaderLine(val)>> \o msgs
                   \o (IF seasonal # <<>> THEN <<BlankLine>> \o seasonal ELSE <<>>), 20)>>
    ELSE IF seasonal # <<>> THEN <<Call("seasonal", seasonal, 15)>>
    ELSE <<>>

(***************************************************************************)
(* Inputs.                                                                 *)
(***************************************************************************)
Rec(t, d, v) == [type |-> t, date |-> d, value |-> v]

\* The value a payload writes as the numeral digits / 10^places.
Num(digits, places) == FloatLiteral(digits, places)
\* The values of the market payloads and of the direct position calls: tenths.
Val(n) == Num(n, 1)
SeqsUpTo(S, n) == UNION {[1..k -> S] : k \in 0..n}

\* A date as the data source writes it: "YYYY-MM-DD", zero-padded.
IsoDate(dt) ==
    << dt[1] \div 1000, (dt[1] \div 100) % 10, (dt[1] \div 10) % 10, dt[1] % 10, Dash,
       dt[2] \div 10, dt[2] % 10, Dash, dt[3] \div 10, dt[3] % 10 >>

RefDate == <<2024, 3, 10>>
DayBack(k) == IsoDate(AddDays(RefDate, 0 - k))
BadDate == IsoDate(<<2023, 2, 29>>)      \* "2023-02-29": strptime raises

\* Free-form payloads: any order, repeated dates, other categories, a bad date.
FreePool ==
    {Rec(t, d, v) : t \in {"10%", "5%"},
                    d \in {DayBack(0), DayBack(7), DayBack(8), BadDate},
                    v \in {Val(1), Val(2)}}
FreePayloads == SeqsUpTo(FreePool, MaxLen)

\* Daily runs, newest first: the latest record (value 2) and the k days before
\* it, the oldest j of them cheaper (1), the others dearer (3).
RunPayload(k, j) ==
    <<Rec("10%", DayBack(0), Val(2))>>
        \o [i \in 1..k |-> Rec("10%", DayBack(i), IF i > k - j THEN Val(1) ELSE Val(3))]
RunPayloads == {RunPayload(k, j) : k \in 0..MaxRun, j \in 0..MaxRun}

\* Records on and next to the window boundaries and on last year's seasonal
\* anchors (366 and 359 days back from RefDate), after the latest record.
BoundaryOffsets == <<7, 30, 31, 90, 91, 359, 365, 366>>
RECURSIVE BoundaryRecs(_, _)
BoundaryRecs(f, i) ==
    IF i > Len(BoundaryOffsets) THEN <<>>
    ELSE (IF f[i] = 0 THEN <<>> ELSE <<Rec("10%", DayBack(BoundaryOffsets[i]), Val(f[i]))>>)
            \o BoundaryRecs(f, i + 1)
BoundaryPayloads ==
    {<<Rec("10%", DayBack(0), Val(2))>> \o BoundaryRecs(f, 1) :
        f \in {g \in [DOMAIN BoundaryOffsets -> 0..3] :
                 Cardinality({i \in DOMAIN g : g[i] # 0}) <= MaxBoundary}}

Payloads == FreePayloads \cup RunPayloads \cup BoundaryPayloads

\* Direct calls of check_seasonal: for each year back a start record (absent,
\* 0 or SeasonBase) and an end record (absent, MaxSeasonRise higher, 1 lower
\* or MaxSeasonDrop lower), on the anchor dates, or where a Feb 29 would be
\* moved to; optionally a stale duplicate of the first start date in front.
\* The values are written as integers or in hundredths (50 or 0.50).
SeasonBase == 50
SeasonChanges == {0 - MaxSeasonRise, 1, MaxSeasonDrop}
SeasonPlaces == {0, 2}
Absent == SeasonBase + 1
SeasonDates == {<<2024, 3, 10>>, <<2024, 2, 29>>}
SeasonStart(cur, k) ==
    LET y == cur[1] - k
    IN  IF ValidDate(y, cur[2], cur[3]) THEN <<y, cur[2], cur[3]>>
        ELSE <<y, cur[2], DaysInMonth(y, cur[2])>>
SeasonRecs(cur, k, sv, ev, places) ==
    (IF sv = Absent THEN <<>>
     ELSE <<Rec("10%", IsoDate(SeasonStart(cur, k)), Num(sv, places))>>)
    \o (IF ev = Absent THEN <<>>
        ELSE <<Rec("10%", IsoDate(AddDays(SeasonStart(cur, k), 7)),
                   Num(SeasonBase - ev, places))>>)
SeasonInputs(cur) ==
    {(IF dup THEN <<Rec("10%", IsoDate(SeasonStart(cur, 1)), FloatZero)>> ELSE <<>>)
        \o SeasonRecs(cur, 3, sv[3], ev[3], places)
        \o SeasonRecs(cur, 2, sv[2], ev[2], places)
        \o SeasonRecs(cur, 1, sv[1], ev[1], places) :
        sv \in [1..3 -> {Absent, 0, SeasonBase}],
        ev \in [1..3 -> {Absent} \cup SeasonChanges],
        dup \in BOOLEAN,
        places \in SeasonPlaces}

(***************************************************************************)
(* check_market(is_manual)                                                 *)
(***************************************************************************)
Quiet ==
    /\ n10_data = <<>> /\ curr_val = FloatZero /\ curr_date = <<1, 1, 1>>
    /\ widx = 0 /\ hist_vals = <<>> /\ real_rank = 0 /\ real_quantile = FloatZero
    /\ stdout = <<>> /\ report_msgs = <<>>
    /\ yidx = 0 /\ drops = <<>> /\ caught = {} /\ seasonal_msg = <<>>
    /\ notifications = <<>>

Init ==
    /\ pc = "start"
    /\ is_manual \in BOOLEAN
    /\ raw_data = <<>>
    /\ Quiet

\* Lines 180-189: the request answered 200 with a JSON list, backed up on disk.
FetchOK ==
    /\ pc = "start"
    /\ \E payload \in Payloads : raw_data' = payload
    /\ pc' = "fetched"
    /\ UNCHANGED <<is_manual, n10_data, curr_val, curr_date, widx, hist_vals, real_rank,
                   real_quantile, stdout, report_msgs, yidx, drops, caught,
                   seasonal_msg, notifications>>

\* Lines 181-183: any other status code ends the cycle.
FetchStatus ==
    /\ pc = "start"
    /\ pc' = "returned"
    /\ UNCHANGED <<is_manual, raw_data, n10_data, curr_val, curr_date, widx, hist_vals,
                   real_rank, real_quantile, stdout, report_msgs, yidx, drops, caught,
                   seasonal_msg, notifications>>

\* Lines 180-189, 258: the request or the JSON decoding raises, with raw_data
\* not yet bound, or the backup raises, after line 185 has bound raw_data.
FetchRaise ==
    /\ pc = "start"
    /\ \/ UNCHANGED raw_data
       \/ \E payload \in Payloads : raw_data' = payload
    /\ pc' = "error"
    /\ UNCHANGED <<is_manual, n10_data, curr_val, curr_date, widx, hist_vals,
                   real_rank, real_quantile, stdout, report_msgs, yidx, drops, caught,
                   seasonal_msg, notifications>>

\* Lines 192-205: filter, sort by date string, take the latest record.
Clean ==
    /\ pc = "fetched"
    /\ \E sorted \in {SortByDate(FilterType(raw_data))} :
           /\ n10_data' = sorted
           /\ IF sorted = <<>>
                THEN pc' = "returned" /\ UNCHANGED <<curr_val, curr_date>>
              ELSE LET latest == sorted[Len(sorted)]
                   IN  /\ curr_val' = latest.value
                       /\ IF strptime_ok(latest.date)
                            THEN /\ curr_date' = strptime(latest.date)
                                 /\ pc' = IF is_manual THEN "visualize" ELSE "windows"
                            ELSE /\ pc' = "error"
                                 /\ UNCHANGED curr_date
    /\ UNCHANGED <<is_manual, raw_data, widx, hist_vals, real_rank, real_quantile, stdout,
                   report_msgs, yidx, drops, caught, seasonal_msg, notifications>>

\* Lines 208-209: visualize_market parses every date (line 88) and writes a
\* file (line 159); either can raise, which ends the cycle at line 258.
Visualize ==
    /\ pc = "visualize"
    /\ \E saved \in BOOLEAN :
          pc' = IF saved /\ AllDatesParse(n10_data) THEN "windows" ELSE "error"
    /\ UNCHANGED <<is_manual, raw_data, n10_data, curr_val, curr_date, widx, hist_vals,
                   real_rank, real_quantile, stdout, report_msgs, yidx, drops, caught,
                   seasonal_msg, notifications>>

\* Mutation: the emptiness guard dropped.
SkipsNever(hv) == FALSE

\* Line 227: `if not hist_vals: continue`.
Skips(hv) == hv = <<>>

\* Lines 220-243: one iteration of the loop over `periods`; a start date
\* before 0001-01-01 or a date that does not parse raises, which ends the
\* cycle at line 258.
WindowStep ==
    /\ pc = "windows"
    /\ LET conf == periods[widx + 1]
       IN  IF ~AddDays_ok(curr_date, 0 - conf.days) \/ ~AllDatesParse(n10_data)
             THEN /\ pc' = "error"
                  /\ UNCHANGED <<widx, hist_vals, real_rank, real_quantile, stdout,
                                 report_msgs>>
           ELSE
             \E hv \in {HistVals(n10_data, AddDays(curr_date, 0 - conf.days), curr_date)} :
             \E pos \in {get_market_position(curr_val, hv)} :
             \E status_text \in {StatusText(conf, pos[1], pos[2])} :
                 /\ widx' = widx + 1
                 /\ pc' = IF widx + 1 = Len(periods) THEN "seasonal" ELSE "windows"
                 /\ hist_vals' = hv
                 /\ IF Skips(hv)
                      THEN UNCHANGED <<real_rank, real_quantile, stdout, report_msgs>>
                    ELSE /\ real_rank' = pos[1]
                         /\ real_quantile' = pos[2]
                         /\ stdout' = Append(stdout, status_text)
                         /\ report_msgs' =
                              IF IsHit(conf.mode, pos[1], pos[2], BUY_CONDITIONS[conf.key])
                                THEN Append(report_msgs, AlertLine(status_text))
                                ELSE report_msgs
    /\ UNCHANGED <<is_manual, raw_data, n10_data, curr_val, curr_date, yidx, drops, caught,
                   seasonal_msg, notifications>>

\* Lines 264-273: one iteration of the loop over [1, 2, 3].
SeasonalStep ==
    /\ pc = "seasonal"
    /\ yidx < Len(year_backs)
    /\ LET year_back == year_backs[yidx + 1]
           anchor == Anchor(curr_date, year_back)
       IN  IF ~anchor[1] \/ ~AddDays_ok(anchor[2], 7)
             THEN caught' = caught \cup {year_back} /\ UNCHANGED drops
           ELSE
             \E past_start \in {anchor[2]} :
             \E past_end \in {AddDays(past_start, 7)} :
             \E sample \in {Sample(n10_data, strftime(past_start), strftime(past_end))} :
                 /\ drops' = IF sample[1] = "sample" THEN Append(drops, sample[2]) ELSE drops
                 /\ caught' = IF sample[1] = "raise" THEN caught \cup {year_back} ELSE caught
    /\ yidx' = yidx + 1
    /\ UNCHANGED <<pc, is_manual, raw_data, n10_data, curr_val, curr_date, widx, hist_vals,
                   real_rank, real_quantile, stdout, report_msgs, seasonal_msg,
                   notifications>>

\* Lines 274-278: the return of check_seasonal.
SeasonalReturn ==
    /\ pc = "seasonal"
    /\ yidx = Len(year_backs)
    /\ seasonal_msg' = SeasonalResult(drops)
    /\ pc' = "seasonal_done"
    /\ UNCHANGED <<is_manual, raw_data, n10_data, curr_val, curr_date, widx, hist_vals,
                   real_rank, real_quantile, stdout, report_msgs, yidx, drops, caught,
                   notifications>>

\* Lines 249-256: send; notification.notify itself may raise (line 258).
Notify ==
    /\ pc = "seasonal_done"
    /\ LET calls == NotifyCalls(report_msgs, seasonal_msg, curr_val)
       IN  /\ notifications' = notifications \o calls
           /\ \E raised \in BOOLEAN :
                 /\ raised => calls # <<>>
                 /\ pc' = IF raised THEN "error" ELSE "done"
    /\ UNCHANGED <<is_manual, raw_data, n10_data, curr_val, curr_date, widx, hist_vals,
                   real_rank, real_quantile, stdout, report_msgs, yidx, drops, caught,
                   seasonal_msg>>

Next ==
    \/ FetchOK
    \/ FetchStatus
    \/ FetchRaise
    \/ Clean
    \/ Visualize
    \/ WindowStep
    \/ SeasonalStep
    \/ SeasonalReturn
    \/ Notify

Spec == Init /\ [][Next]_vars

(***************************************************************************)
(* check_seasonal(all_data, curr_date) called on its own.                  *)
(***************************************************************************)
InitSeasonal ==
    /\ pc = "seasonal"
    /\ is_manual = FALSE
    /\ raw_data = <<>>
    /\ curr_date \in SeasonDates
    /\ n10_data \in SeasonInputs(curr_date)
    /\ curr_val = FloatZero
    /\ widx = 0 /\ hist_vals = <<>> /\ real_rank = 0 /\ real_quantile = FloatZero
    /\ stdout = <<>> /\ report_msgs = <<>>
    /\ yidx = 0 /\ drops = <<>> /\ caught = {} /\ seasonal_msg = <<>>
    /\ notifications = <<>>

NextSeasonal == SeasonalStep \/ SeasonalReturn

SpecSeasonal == InitSeasonal /\ [][NextSeasonal]_vars

(***************************************************************************)
(* get_market_position(current_val, history_values) called on its own.     *)
(***************************************************************************)
InitPosition ==
    /\ pc = "call"
    /\ is_manual = FALSE
    /\ raw_data = <<>>
    /\ n10_data = <<>>
    /\ curr_val \in {Val(n) : n \in 0..MaxVal}
    /\ curr_date = <<1, 1, 1>>
    /\ hist_vals \in SeqsUpTo({Val(n) : n \in 0..MaxVal}, MaxHist)
    /\ widx = 0 /\ real_rank = 0 /\ real_quantile = FloatZero
    /\ stdout = <<>> /\ report_msgs = <<>>
    /\ yidx = 0 /\ drops = <<>> /\ caught = {} /\ seasonal_msg = <<>>
    /\ notifications = <<>>

CallPosition ==
    /\ pc = "call"
    /\ \E pos \in {get_market_position(curr_val, hist_vals)} :
          real_rank' = pos[1] /\ real_quantile' = pos[2]
    /\ pc' = "result"
    /\ UNCHANGED <<is_manual, raw_data, n10_data, curr_val, curr_date, widx, hist_vals,
                   stdout, report_msgs, yidx, drops, caught, seasonal_msg, notifications>>

NextPosition == CallPosition

SpecPosition == InitPosition /\ [][NextPosition]_vars

(***************************************************************************)
(* Properties of get_market_position (checked under SpecPosition).         *)
(***************************************************************************)
CheaperIn(hv, v) == {i \in DOMAIN hv : FloatLt(hv[i], v)}
TiedIn(hv, v) == {i \in DOMAIN hv : hv[i] = v}

\* C1: for a non-empty history the rank is the 1-based position of the first
\* occurrence of the current value in the ascending sort of history plus
\* current value: one more than the number of strictly smaller history
\* values, whatever the number of values tied with it.
C1_RankIsFirstOccurrence ==
    (pc = "result" /\ hist_vals # <<>>) =>
        real_rank = 1 + Cardinality(CheaperIn(hist_vals, curr_val))

\* C1 witness: a call whose history holds values tied with and values below
\* the current one.
C1_Witness ==
    /\ pc = "result"
    /\ Cardinality(TiedIn(hist_vals, curr_val)) >= 2
    /\ Cardinality(CheaperIn(hist_vals, curr_val)) = 1
    /\ real_rank = 2

\* C2: for a non-empty history the quantile is the number of history values
\* strictly below the current value over the length of the history alone
\* (as the float that division yields).
C2_QuantileIsStrictShare ==
    (pc = "result" /\ hist_vals # <<>>) =>
        real_quantile = FloatDivInts(Cardinality(CheaperIn(hist_vals, curr_val)),
                                     Len(hist_vals))

\* C2 witness: a history with one cheaper value, one tie and one dearer value.
C2_Witness ==
    /\ pc = "result"
    /\ Len(hist_vals) = 3
    /\ Cardinality(TiedIn(hist_vals, curr_val)) = 1
    /\ Cardinality(CheaperIn(hist_vals, curr_val)) = 1
    /\ real_quantile = FloatDivInts(1, 3)

(***************************************************************************)
(* Properties of check_market (checked under Spec).                        *)
(***************************************************************************)
\* Day number of the i-th cleaned record and of the current date.
DayOf(i) == ToOrdinal(ParseFields(n10_data[i].date))
Today == ToOrdinal(curr_date)

\* The records of the window of n days: today - n <= day < today.
WindowIdx(n) == {i \in DOMAIN n10_data : Today - n <= DayOf(i) /\ DayOf(i) < Today}
WindowCheaper(n) == {i \in WindowIdx(n) : FloatLt(n10_data[i].value, curr_val)}
WindowDays == <<7, 30, 90, 365>>
WindowNames == <<"week", "month", "quarter", "year">>

\* The hit rule of the w-th window, from the records themselves: rank <= 1
\* says no record of the window is cheaper; quantile <= t says the cheaper
\* share is at most 10, 15 or 20 percent.
WindowHit(w) ==
    LET n == WindowDays[w]
    IN  IF w = 1 THEN 1 + Cardinality(WindowCheaper(n)) <= 1
        ELSE 100 * Cardinality(WindowCheaper(n))
                <= <<0, 10, 15, 20>>[w] * Cardinality(WindowIdx(n))

\* The window loop has handled w windows without raising.
Handled(w) == widx >= w /\ w >= 1

\* C3: the history handed to the position analyzer for the window of N days
\* holds exactly the values of the records dated d with
\* today - N <= d < today, each as often as it occurs there.
C3_HistoryIsHalfOpenWindow ==
    Handled(1) =>
        LET inside == WindowIdx(WindowDays[widx])
        IN  /\ Len(hist_vals) = Cardinality(inside)
            /\ \A i \in inside :
                 Cardinality({j \in DOMAIN hist_vals : hist_vals[j] = n10_data[i].value})
                   = Cardinality({k \in inside : n10_data[k].value = n10_data[i].value})

\* C3 witness: the 30-day window of a series with a record dated today - 30
\* (taken), one dated today - 31 and the current record (both left out).
C3_Witness ==
    /\ widx = 2
    /\ Len(n10_data) = 3
    /\ \E i, j \in DOMAIN n10_data : DayOf(i) = Today - 30 /\ DayOf(j) = Today - 31
    /\ Len(hist_vals) = 1

\* C4: a window with non-empty history is in the triggered-alert list if and
\* only if its hit rule holds, equality with the threshold included.
C4_AlertIffHitRule ==
    (Handled(1) /\ hist_vals # <<>>) =>
        ((\E i \in DOMAIN report_msgs : report_msgs[i].name = WindowNames[widx])
            <=> WindowHit(widx))

\* C4 witness: the 30-day window with ten records, exactly one of them
\* cheaper: quantile 0.10 equals the threshold and the window is reported.
C4_Witness ==
    /\ widx = 2
    /\ Len(hist_vals) = 10
    /\ Cardinality(CheaperIn(hist_vals, curr_val)) = 1
    /\ \E i \in DOMAIN report_msgs : report_msgs[i].name = "month"

\* C7: one cycle calls notification.notify at most once.
C7_AtMostOneNotification == Len(notifications) <= 1

\* C7 witness: a finished cycle with a hit and a seasonal warning, and one call.
C7_Witness ==
    /\ pc = "done"
    /\ report_msgs # <<>>
    /\ seasonal_msg # <<>>
    /\ Len(notifications) = 1

\* The alert lines a cycle owes: the wrapped status lines of the windows with
\* non-empty history whose hit rule holds, in window order.
RECURSIVE OwedAlerts(_, _)
OwedAlerts(w, lines) ==
    IF w > Len(WindowDays) THEN <<>>
    ELSE IF WindowIdx(WindowDays[w]) = {} THEN OwedAlerts(w + 1, lines)
    ELSE (IF WindowHit(w) THEN <<AlertLine(Head(lines))>> ELSE <<>>)
            \o OwedAlerts(w + 1, Tail(lines))

\* C8 as stated: every message sent is the triggered windows' lines followed,
\* when there is a seasonal warning, by a blank line and the warning.
C8_AsStated ==
    \A i \in DOMAIN notifications :
        notifications[i].message =
            OwedAlerts(1, stdout)
                \o (IF seasonal_msg # <<>> THEN <<BlankLine>> \o seasonal_msg ELSE <<>>)

\* C8 amended: with at least one window hit, the message is a header line
\* with the current value, then the triggered windows' lines, then, when
\* there is a seasonal warning, a blank line and the warning; with no window
\* hit, the message is the seasonal warning alone.
C8_MessageLayout ==
    \A i \in DOMAIN notifications :
        notifications[i].message =
            IF OwedAlerts(1, stdout) # <<>>
              THEN <<HeaderLine(curr_val)>> \o OwedAlerts(1, stdout)
                     \o (IF seasonal_msg # <<>> THEN <<BlankLine>> \o seasonal_msg
                         ELSE <<>>)
            ELSE seasonal_msg

\* C8 witness: a message with a hit and a seasonal warning has been sent.
C8_Witness ==
    /\ Len(notifications) = 1
    /\ seasonal_msg # <<>>
    /\ Len(report_msgs) >= 1
    /\ Len(stdout) > Len(report_msgs)

\* The status lines owed after w windows: one per window with non-empty
\* history among the first w, in the order week, month, quarter, year.
RECURSIVE OwedNames(_, _)
OwedNames(w, upto) ==
    IF w > upto THEN <<>>
    ELSE (IF WindowIdx(WindowDays[w]) = {} THEN <<>> ELSE <<WindowNames[w]>>)
            \o OwedNames(w + 1, upto)

\* C9: a window without history yields no status line and no alert and does
\* not stop the loop; every window with history yields a status line, hit or
\* not; the windows are handled in the order 7, 30, 90, 365 days, and the
\* loop ends only after all four.
C9_EmptyWindowsSkipped ==
    /\ Handled(1) =>
         /\ [i \in DOMAIN stdout |-> stdout[i].name] = OwedNames(1, widx)
         /\ \A i \in DOMAIN report_msgs :
               \E j \in DOMAIN stdout : AlertLine(stdout[j]) = report_msgs[i]
    /\ pc \in {"seasonal", "seasonal_done", "done"} => widx = Len(WindowDays)

\* C9 witness: the 7-day window is empty, the other three are not, and none
\* of the three is a hit.
C9_Witness ==
    /\ widx = 4
    /\ WindowIdx(7) = {}
    /\ [i \in DOMAIN stdout |-> stdout[i].name] = <<"month", "quarter", "year">>
    /\ report_msgs = <<>>

(***************************************************************************)
(* Properties of check_seasonal (checked under SpecSeasonal).              *)
(***************************************************************************)
\* The same-period anchor of k years back exists unless the current date is
\* Feb 29 and that year has none.
AnchorExists(k) ==
    ~(curr_date[2] = 2 /\ curr_date[3] = 29 /\ ~IsLeap(curr_date[1] - k))
PastStartKey(k) == strftime(<<curr_date[1] - k, curr_date[2], curr_date[3]>>)
PastEndKey(k) ==
    strftime(FromOrdinal(ToOrdinal(<<curr_date[1] - k, curr_date[2], curr_date[3]>>) + 7))
KeyPresent(s) == \E i \in DOMAIN n10_data : n10_data[i].date = s
\* The value the lookup holds for a date: that of its last record.
ValueAt(s) ==
    n10_data[CHOOSE i \in DOMAIN n10_data :
                /\ n10_data[i].date = s
                /\ \A j \in DOMAIN n10_data : j > i => n10_data[j].date # s].value
BothPresent(k) == AnchorExists(k) /\ KeyPresent(PastStartKey(k)) /\ KeyPresent(PastEndKey(k))

\* The recorded samples added one by one from the left, starting from acc.
RECURSIVE SumFrom(_, _)
SumFrom(acc, ds) == IF ds = <<>> THEN acc ELSE SumFrom(FloatAdd(acc, Head(ds)), Tail(ds))
\* The arithmetic mean of the recorded samples, for at least one sample.
RecordedMean == FloatDivInt(SumFrom(FloatZero, drops), Len(drops))

\* C5: check_seasonal returns a warning if and only if at least one sample
\* was recorded and the arithmetic mean of the recorded samples is strictly
\* above the threshold; with no sample, or a mean equal to or below the
\* threshold, it returns None; it raises nothing.
C5_WarningIffMeanAboveThreshold ==
    /\ pc \in {"seasonal", "seasonal_done"}
    /\ pc = "seasonal_done" =>
          (seasonal_msg # <<>> <=>
              (drops # <<>> /\ FloatLt(SEASONAL_DROP_THRESHOLD, RecordedMean)))

\* C5 witness: the samples 0.1 (50 -> 45) and -0.06 (50 -> 53) were recorded;
\* their mean, 0.020000000000000004, is above the threshold 0.02 and the
\* warning is returned.
C5_Witness ==
    /\ pc = "seasonal_done"
    /\ drops = <<FloatDivInts(1, 10), FloatDivInts(0 - 3, 50)>>
    /\ FloatLt(SEASONAL_DROP_THRESHOLD, RecordedMean)
    /\ seasonal_msg # <<>>

\* C6 as stated: the number of recorded samples is the number of year offsets
\* whose two anchor dates are both keys of the series.
C6_AsStated ==
    pc = "seasonal_done" => Len(drops) = Cardinality({k \in 1..3 : BothPresent(k)})

\* The <<value(pastStart), value(pastEnd)>> of the offsets k..3 that owe a
\* sample: those whose anchors are both present and whose start value is
\* not 0.
RECURSIVE OwedPairs(_)
OwedPairs(k) ==
    IF k > 3 THEN <<>>
    ELSE (IF BothPresent(k) /\ ValueAt(PastStartKey(k)) # FloatZero
            THEN << <<ValueAt(PastStartKey(k)), ValueAt(PastEndKey(k))>> >>
            ELSE <<>>)
            \o OwedPairs(k + 1)

\* a * b
RECURSIVE BigMul(_, _)
BigMul(a, b) ==
    IF b = <<>> THEN <<>>
    ELSE BigTrim(BigAdd(BigMulSmall(a, b[1]), <<0>> \o BigMul(a, Tail(b))))

\* |sa * a - sb * b| for signs sa, sb and magnitudes a, b.
BigDistance(sa, a, sb, b) ==
    IF sa = 0 THEN b
    ELSE IF sb = 0 THEN a
    ELSE IF sa # sb THEN BigTrim(BigAdd(a, b))
    ELSE IF BigCmp(a, b) >= 0 THEN BigSub(a, b) ELSE BigSub(b, a)

\* Whether x is (s - e) / s up to the rounding of one subtraction and one
\* division, each of relative error at most u = 2^-53, in exact arithmetic:
\* |x * s - (s - e)| <= (2u + u^2) * |s - e|.
WithinRounding(x, s, e) ==
    LET low == IF s[3] < e[3] THEN s[3] ELSE e[3]
        ms == BigShl(s[2], s[3] - low)
        me == BigShl(e[2], e[3] - low)
        sd == IF s[1] # e[1] THEN s[1] ELSE s[1] * BigCmp(ms, me)
        md == BigDistance(s[1], ms, e[1], me)
        g == IF x[3] + s[3] < low THEN x[3] + s[3] ELSE low
        prod == BigShl(BigMul(x[2], s[2]), x[3] + s[3] - g)
        diff == BigShl(md, low - g)
    IN  IF sd = 0 THEN x = FloatZero
        ELSE /\ x[1] = sd * s[1]
             /\ BigCmp(BigShl(BigDistance(1, prod, 1, diff), 106),
                       BigAdd(BigShl(diff, 54), diff)) <= 0

\* C6 amended: for each year offset a sample, the float
\* (value(pastStart) - value(pastEnd)) / value(pastStart), is recorded exactly
\* when both anchor dates are keys of the series and value(pastStart) is not
\* 0; an offset whose start value is 0 is skipped without a sample.
C6_SamplesForNonZeroStarts ==
    pc = "seasonal_done" =>
        /\ Len(drops) = Len(OwedPairs(1))
        /\ \A i \in DOMAIN drops :
              /\ drops[i] = FloatDiv(FloatSub(OwedPairs(1)[i][1], OwedPairs(1)[i][2]),
                                     OwedPairs(1)[i][1])
              /\ WithinRounding(drops[i], OwedPairs(1)[i][1], OwedPairs(1)[i][2])

\* C6 witness: one offset has both anchors with a start value of 0, another
\* has both with a non-zero start value and is the only sample.
C6_Witness ==
    /\ pc = "seasonal_done"
    /\ \E k \in 1..3 : BothPresent(k) /\ ValueAt(PastStartKey(k)) = FloatZero
    /\ Cardinality({k \in 1..3 : BothPresent(k)}) = 2
    /\ Len(drops) = 1

\* C10: an offset whose anchor date cannot be constructed yields no sample
\* and is skipped; the loop goes on through the remaining offsets, whose
\* samples are recorded as usual; check_seasonal returns without raising.
C10_FailedAnchorSkipped ==
    /\ \A k \in 1..yidx : ~AnchorExists(k) => k \in caught
    /\ Len(drops) = Cardinality({k \in 1..yidx :
                                    BothPresent(k) /\ ValueAt(PastStartKey(k)) # FloatZero})
    /\ pc \in {"seasonal", "seasonal_done"}
    /\ pc = "seasonal_done" => yidx = 3

\* C10 witness: the current date is Feb 29, the series holds records on
\* Feb 28 and on Mar 7 of the year before, and the call has returned after
\* going through all three offsets.
C10_Witness ==
    /\ pc = "seasonal_done"
    /\ curr_date = <<2024, 2, 29>>
    /\ KeyPresent(IsoDate(<<2023, 2, 28>>))
    /\ KeyPresent(IsoDate(<<2023, 3, 7>>))
    /\ caught = {1, 2, 3}
    /\ yidx = 3
    /\ drops = <<>>

====
